---- MODULE Spec2Model ----
(***************************************************************************)
(* A model of the voice session orchestrator of soporte-Sistemas:          *)
(* LiveManager (src/services/liveManager.ts, lines 66-346) and the part of *)
(* App that drives it (handleConnect / disconnectSession, lines 612-647).  *)
(*                                                                         *)
(* JavaScript runs one task at a time.  An action of this model is one     *)
(* task together with the microtasks it queues on already settled          *)
(* promises (sessionPromise.then(...) once the session exists), because no *)
(* other task can run in between.  Every await on real I/O (getUserMedia,  *)
(* decodeAudioData, generateContent) ends the action and is resumed by a   *)
(* later action.                                                           *)
(***************************************************************************)
EXTENDS Integers, Sequences, FiniteSets, Bags, TLC

\* ---------------------------------------------------------------- bounds
MaxConnects == 2        \* connect() calls in one run of the lifecycle
MaxDisconnects == 2     \* caller's disconnect() calls in one run of the lifecycle
SessConnects == 1       \* connect() calls in one run with channel traffic
Sessions == 2           \* connect() calls of a caller that reconnects
SessDisconnects == 1    \* caller's disconnect() calls in one run with traffic
MaxClock == 1           \* audio clock ticks
MaxSegments == 2        \* inbound audio segments in one run
MaxInterrupts == 1      \* inbound interruption signals in one run
MaxToolCalls == 2       \* tool invocations in one run with tool traffic
TicketCalls == 1        \* tool invocations in one run that samples Math.random()
MaxBatch == 2           \* function calls in one tool-call message
MaxBins == 3            \* frequency bins in one frame of the analyser
MaxFrames == 2          \* input frames captured in one run
TextCalls == 1          \* tool invocations in one run that goes through the texts
RandSteps == 20000      \* Math.random() returns n / RandSteps, 0 <= n < RandSteps
RandStride == 2500      \* distance between the sampled values of n

ConnIds == 1..MaxConnects

\* The causes getUserMedia may reject with; AbortError stands for "any other".
Causes == {"NotAllowedError", "PermissionDeniedError", "NotFoundError",
           "NotReadableError", "AbortError"}

VARIABLES
  this,          \* [manager -> the LiveManager instance's private fields]
  chan,          \* [connect call -> state of the channel ai.live.connect opened]
  closePending,  \* channels with a sessionPromise.then(s => s.close()) waiting
  closeCalls,    \* [connect call -> times its cleanup action has run]
  micLive,       \* microphone streams whose tracks are not stopped
  outCtxOpen,    \* output AudioContexts created and not closed
  inCtxOpen,     \* input AudioContexts created and not closed
  events,        \* [connect call -> what its session emitted, in order]
  connectionState, \* App's connectionState (useState)
  connectPc,     \* [connect call -> "idle" | "mic" | "done" | "failed" | "aborted" | "threw"]
  micErr,        \* [connect call -> the cause getUserMedia rejected with, or ""]
  nDisconnect,   \* disconnect() calls made by the caller so far
  discRow,       \* disconnect() calls made by the caller since its last connect()
  quota,         \* what this run holds: [connect, disconnect, tools] calls
  randoms,       \* the values n for which Math.random() may return n / RandSteps
  texts,         \* the texts the generations may answer with
  mode,          \* "api": one LiveManager used directly; "app": driven by App
  liveManagerRef, \* App's liveManagerRef.current: a manager, or 0 for null
  resetTimers,   \* pending setTimeout(() => setConnectionState(DISCONNECTED))
  clock,         \* audioContext.currentTime of the newest output context
  decodes,       \* audio segments whose decodeAudioData is awaited
  sched,         \* every source.start(when) call, in call order
  nSeg,          \* audio segments received so far
  epoch,         \* interruption signals handled so far
  uncaught,      \* audio handlers that ended in an exception nobody catches
  calls,         \* the tool invocations received, in order of arrival
  sent,          \* the sendToolResponse calls made, as a bag
  volume,        \* the values passed to onVolumeChange: the last one, if any
  nFrames,       \* the input frames captured so far
  handed         \* the sendRealtimeInput calls made, in call order

stVars == <<this, chan, closePending, closeCalls, micLive, outCtxOpen,
            inCtxOpen, events, connectionState>>
connVars == <<connectPc, micErr>>
callVars == <<nDisconnect, discRow>>
envVars == <<quota, randoms, texts, mode>>
appVars == <<liveManagerRef, resetTimers>>
audioVars == <<clock, decodes, sched, nSeg, epoch, uncaught>>
toolVars == <<calls, sent>>
micVars == <<volume, nFrames, handed>>

vars == <<stVars, connVars, callVars, envVars, appVars, audioVars, toolVars,
          micVars>>

\* ------------------------------------------------------------- the fields
\* LiveManager's field initialisers; 0 stands for null.
NewLiveManager ==
  [audioContext |-> 0, stream |-> 0, processor |-> 0, inputSource |-> 0,
   nextStartTime |-> 0, cleanupFunctions |-> <<>>]

\* The manager a connect call runs on: App makes a new LiveManager for each
\* attempt, a direct caller keeps using one.
mgrOf(k) == IF mode = "app" THEN k ELSE 1

Max(a, b) == IF a >= b THEN a ELSE b

\* ----------------------------------------------- the state, as one record
St ==
  [this |-> this, chan |-> chan, closePending |-> closePending,
   closeCalls |-> closeCalls, micLive |-> micLive, outCtxOpen |-> outCtxOpen,
   inCtxOpen |-> inCtxOpen, events |-> events,
   connectionState |-> connectionState]

Commit(s) ==
  /\ this' = s.this
  /\ chan' = s.chan
  /\ closePending' = s.closePending
  /\ closeCalls' = s.closeCalls
  /\ micLive' = s.micLive
  /\ outCtxOpen' = s.outCtxOpen
  /\ inCtxOpen' = s.inCtxOpen
  /\ events' = s.events
  /\ connectionState' = s.connectionState

Event(e, msg) == [e |-> e, msg |-> msg]

\* setConnectionState(v), made in the course of connect call k.
setConnectionState(s, k, v) ==
  [s EXCEPT !.connectionState = v,
            !.events[k] = Append(@, Event("state", v))]

\* this.onError(msg): App (lines 622-628) subscribes no error handler.
onError(s, k, msg) == [s EXCEPT !.events[k] = Append(@, Event("error", msg))]

\* this.onClose(): App's handler sets the connection state to DISCONNECTED.
onClose(s, k) ==
  LET s1 == [s EXCEPT !.events[k] = Append(@, Event("closed", ""))]
  IN IF mode = "app" THEN setConnectionState(s1, k, "DISCONNECTED") ELSE s1

\* The cleanup action connect registers: sessionPromise.then(s => s.close()).
\* On an open session the close runs before any other task; on a session that
\* is still being opened it waits for the session.
closeSession(s, k) ==
  [s EXCEPT !.closeCalls[k] = @ + 1,
            !.chan[k] = IF @ = "open" THEN "closing" ELSE @,
            !.closePending = IF s.chan[k] = "opening" THEN @ \cup {k} ELSE @]

RECURSIVE runCleanup(_, _)
runCleanup(s, fns) ==
  IF fns = <<>> THEN s ELSE runCleanup(closeSession(s, Head(fns)), Tail(fns))

\* (a cleanup list that disconnect() forgets to empty)
keptCleanup(fns) == fns

\* The cleanup list disconnect() leaves behind.
clearedCleanup(fns) == <<>>

\* disconnect() of manager m.
disconnect(s, m) ==
  LET t  == s.this[m]
      s1 == runCleanup(s, t.cleanupFunctions)
  IN [s1 EXCEPT
        !.micLive = @ \ {t.stream},
        !.outCtxOpen = @ \ {t.audioContext},
        !.this[m] = [t EXCEPT !.cleanupFunctions = clearedCleanup(@),
                              !.processor = 0, !.inputSource = 0,
                              !.stream = 0, !.audioContext = 0]]

\* The message the getUserMedia catch block selects.
micMessage(name) ==
  IF name \in {"NotAllowedError", "PermissionDeniedError"} THEN "permission-denied"
  ELSE IF name = "NotFoundError" THEN "device-not-found"
  ELSE IF name = "NotReadableError" THEN "device-busy"
  ELSE "generic"

\* ------------------------------------------------------------------- Init
InitCommon ==
  /\ this = [m \in ConnIds |-> NewLiveManager]
  /\ connectPc = [k \in ConnIds |-> "idle"]
  /\ micErr = [k \in ConnIds |-> ""]
  /\ chan = [k \in ConnIds |-> "none"]
  /\ closePending = {}
  /\ closeCalls = [k \in ConnIds |-> 0]
  /\ micLive = {}
  /\ outCtxOpen = {}
  /\ inCtxOpen = {}
  /\ events = [k \in ConnIds |-> <<>>]
  /\ nDisconnect = 0
  /\ discRow = 0
  /\ connectionState = "DISCONNECTED"
  /\ liveManagerRef = 0
  /\ resetTimers = 0
  /\ clock = 0
  /\ decodes = {}
  /\ sched = <<>>
  /\ nSeg = 0
  /\ epoch = 0
  /\ uncaught = 0
  /\ calls = <<>>
  /\ sent = EmptyBag
  /\ volume = <<>>
  /\ nFrames = 0
  /\ handed = <<>>

\* A LiveManager used directly, with no channel traffic.
Init ==
  /\ mode = "api"
  /\ quota = [connect |-> MaxConnects, disconnect |-> MaxDisconnects,
              tools |-> 0]
  /\ randoms = {}
  /\ texts = [tips |-> {}, draft |-> {}]
  /\ InitCommon

\* A LiveManager used directly, with traffic on its channel.
InitSession ==
  /\ mode = "api"
  /\ quota = [connect |-> SessConnects, disconnect |-> SessDisconnects,
              tools |-> 0]
  /\ randoms = {}
  /\ texts = [tips |-> {}, draft |-> {}]
  /\ InitCommon

\* App, which makes a LiveManager for every attempt.
InitApp ==
  /\ mode = "app"
  /\ quota = [connect |-> MaxConnects, disconnect |-> MaxDisconnects,
              tools |-> 0]
  /\ randoms = {}
  /\ texts = [tips |-> {}, draft |-> {}]
  /\ InitCommon

\* ------------------------------------------------------------ connect()
\* connect() up to its first await: the output context is created and
\* getUserMedia is started.  Calls are numbered in call order.
connectStart(s, k) ==
  [s EXCEPT !.this[mgrOf(k)].audioContext = k,
            !.outCtxOpen = @ \cup {k}]

\* The next connect call is k.
nextCall(k) ==
  /\ k <= quota.connect
  /\ connectPc[k] = "idle"
  /\ \A j \in ConnIds : j < k => connectPc[j] # "idle"

Connect(k) ==
  /\ mode = "api"
  /\ nextCall(k)
  /\ connectPc' = [connectPc EXCEPT ![k] = "mic"]
  /\ Commit(connectStart(St, k))
  /\ clock' = 0
  /\ discRow' = 0
  /\ UNCHANGED <<micErr, nDisconnect, envVars, micVars, appVars, decodes, sched, nSeg,
                 epoch, uncaught, toolVars>>

\* connect() by a caller that starts a session only once the one before has
\* ended: no connect() is waiting for the microphone and no channel is in use.
ConnectNext(k) ==
  /\ \A j \in ConnIds : connectPc[j] # "mic" /\ chan[j] \in {"none", "closed"}
  /\ Connect(k)

\* What handleConnect does once connect() has returned.
afterConnect(s, k) ==
  IF mode = "app" THEN setConnectionState(s, k, "CONNECTED") ELSE s

\* getUserMedia resolves: the rest of connect() runs to its end.
GetUserMediaResolve(k) ==
  /\ connectPc[k] = "mic"
  /\ LET m  == mgrOf(k)
         s1 == [St EXCEPT
                  !.this[m].stream = k,
                  !.this[m].inputSource = k,
                  !.this[m].processor = k,
                  !.this[m].cleanupFunctions = Append(@, k),
                  !.micLive = @ \cup {k},
                  !.inCtxOpen = @ \cup {k},
                  !.chan[k] = "opening"]
     IN Commit(afterConnect(s1, k))
  /\ connectPc' = [connectPc EXCEPT ![k] = "done"]
  /\ UNCHANGED <<micErr, callVars, envVars, micVars, appVars, audioVars, toolVars>>

\* The outer catch's second report: made unless this.stream is null.
reportSetupFailure(s, k) ==
  IF s.this[mgrOf(k)].stream = 0 THEN s ELSE onError(s, k, "error.message")

\* getUserMedia rejects: the inner catch reports and rethrows, the outer
\* catch reports again unless this.stream is null, tears down and emits closed.
GetUserMediaReject(k, name) ==
  /\ connectPc[k] = "mic"
  /\ LET m  == mgrOf(k)
         s1 == onError(St, k, micMessage(name))
         s2 == reportSetupFailure(s1, k)
         s3 == onClose(disconnect(s2, m), k)
     IN Commit(afterConnect(s3, k))
  /\ connectPc' = [connectPc EXCEPT ![k] = "failed"]
  /\ micErr' = [micErr EXCEPT ![k] = name]
  /\ UNCHANGED <<callVars, envVars, micVars, appVars, audioVars, toolVars>>

\* connect() when creating the output audio context throws: nothing is
\* assigned, and the outer catch reports unless this.stream is null, tears
\* down and emits closed.
ConnectThrows(k) ==
  /\ mode = "api"
  /\ nextCall(k)
  /\ connectPc' = [connectPc EXCEPT ![k] = "aborted"]
  /\ Commit(onClose(disconnect(reportSetupFailure(St, k), mgrOf(k)), k))
  /\ discRow' = 0
  /\ UNCHANGED <<micErr, nDisconnect, envVars, micVars, appVars, audioVars,
                 toolVars>>

\* getUserMedia resolves and creating the input context or the processor
\* throws: the stream is stored, and the outer catch reports, tears down and
\* emits closed.
SetupThrows(k) ==
  /\ connectPc[k] = "mic"
  /\ LET m  == mgrOf(k)
         s1 == [St EXCEPT !.this[m].stream = k, !.micLive = @ \cup {k}]
         s2 == onClose(disconnect(reportSetupFailure(s1, k), m), k)
     IN Commit(afterConnect(s2, k))
  /\ connectPc' = [connectPc EXCEPT ![k] = "aborted"]
  /\ UNCHANGED <<micErr, callVars, envVars, micVars, appVars, audioVars,
                 toolVars>>

\* ------------------------------------------------ the channel's callbacks
\* The channel opens: onopen runs, then the session promise resolves and a
\* waiting close is carried out.
OnOpen(k) ==
  /\ chan[k] = "opening"
  /\ chan' = [chan EXCEPT ![k] = IF k \in closePending THEN "closing" ELSE "open"]
  /\ closePending' = closePending \ {k}
  /\ UNCHANGED <<this, closeCalls, micLive, outCtxOpen, inCtxOpen, events,
                 connectionState, connVars, callVars, envVars, micVars, appVars,
                 audioVars, toolVars>>

\* onclose: the remote side closed an open channel, or a close this side
\* asked for has completed.
OnClose(k) ==
  /\ chan[k] \in {"open", "closing"}
  /\ LET s1 == onClose(disconnect(St, mgrOf(k)), k)
     IN Commit([s1 EXCEPT !.chan[k] = "closed"])
  /\ UNCHANGED <<connVars, callVars, envVars, micVars, appVars, audioVars, toolVars>>

\* (a remote error reported after the teardown and the closed event)
remoteErrorLast(s, k) ==
  onError(onClose(disconnect(s, mgrOf(k)), k), k, "connectivity")

\* The onerror callback: onError, disconnect(), onClose().
remoteError(s, k) ==
  onClose(disconnect(onError(s, k, "connectivity"), mgrOf(k)), k)

\* onerror: the channel reports an error; its close callback follows.
OnError(k) ==
  /\ chan[k] \in {"opening", "open"}
  /\ LET s2 == remoteError(St, k)
     IN Commit([s2 EXCEPT !.chan[k] = "closing", !.closePending = @ \ {k}])
  /\ UNCHANGED <<connVars, callVars, envVars, micVars, appVars, audioVars, toolVars>>

\* ---------------------------------------------------------- disconnect()
\* disconnect() called from outside, in any state.
Disconnect ==
  /\ mode = "api"
  /\ nDisconnect < quota.disconnect
  /\ nDisconnect' = nDisconnect + 1
  /\ discRow' = discRow + 1
  /\ Commit(disconnect(St, 1))
  /\ UNCHANGED <<connVars, envVars, micVars, appVars, audioVars, toolVars>>

\* -------------------------------------------------------------------- App
\* The button that calls handleConnect is shown in these states.
canStart == connectionState \in {"DISCONNECTED", "ERROR"}

\* handleConnect up to its await: the state becomes CONNECTING, a new
\* LiveManager is made and stored, and connect() is started on it.
HandleConnect(k) ==
  /\ mode = "app"
  /\ canStart
  /\ nextCall(k)
  /\ connectPc' = [connectPc EXCEPT ![k] = "mic"]
  /\ Commit(connectStart(setConnectionState(St, k, "CONNECTING"), k))
  /\ liveManagerRef' = k
  /\ UNCHANGED <<micErr, callVars, envVars, micVars, resetTimers, audioVars, toolVars>>

\* handleConnect when its try block throws before connect() is reached (the
\* LiveManager constructor fails): the state becomes ERROR and a reset to
\* DISCONNECTED is scheduled.
HandleConnectThrows(k) ==
  /\ mode = "app"
  /\ canStart
  /\ nextCall(k)
  /\ connectPc' = [connectPc EXCEPT ![k] = "threw"]
  /\ Commit(setConnectionState(setConnectionState(St, k, "CONNECTING"),
                               k, "ERROR"))
  /\ resetTimers' = resetTimers + 1
  /\ UNCHANGED <<micErr, callVars, envVars, micVars, liveManagerRef, audioVars, toolVars>>

\* The scheduled reset fires.
ResetTimer ==
  /\ resetTimers > 0
  /\ resetTimers' = resetTimers - 1
  /\ connectionState' = "DISCONNECTED"
  /\ UNCHANGED <<this, chan, closePending, closeCalls, micLive, outCtxOpen,
                 inCtxOpen, events, connVars, callVars, envVars, micVars,
                 liveManagerRef, audioVars, toolVars>>

\* disconnectSession, reached from the stop button, which is enabled while
\* the state is CONNECTED.
DisconnectSession ==
  /\ mode = "app"
  /\ connectionState = "CONNECTED"
  /\ LET s1 == IF liveManagerRef # 0 THEN disconnect(St, liveManagerRef) ELSE St
     IN Commit([s1 EXCEPT !.connectionState = "DISCONNECTED"])
  /\ liveManagerRef' = 0
  /\ UNCHANGED <<connVars, callVars, envVars, micVars, resetTimers, audioVars, toolVars>>

\* ------------------------------------------------------- audio playback
\* The durations of inbound segments, in clock ticks: a short and a long one.
Durations == {1, 2}

\* Interruption signals received so far: handled, or waiting behind a decode.
interruptsSeen == epoch + Cardinality({d \in decodes : d.intr})

\* The cursor an interruption signal leaves: the clock, or 0 without a context.
interruptedCursor(t) == IF t.audioContext # 0 THEN clock ELSE 0

\* The cursor before the decode is awaited.
cursorOnArrival(t) == Max(t.nextStartTime, clock)

\* (a cursor that is not advanced past the segment just started)
cursorNotAdvanced(at, dur) == at

\* The cursor after source.start(this.nextStartTime).
cursorAfterStart(at, dur) == at + dur

\* onmessage for a message carrying an audio segment of duration dur, with
\* (intr) or without the interrupted flag.  With an audio context the cursor
\* is raised to the clock and the decode is awaited; without one the segment
\* is skipped and the interruption, if any, is handled at once.
OnMessageAudio(k, dur, intr) ==
  /\ chan[k] = "open"
  /\ nSeg < MaxSegments
  /\ intr => interruptsSeen < MaxInterrupts
  /\ nSeg' = nSeg + 1
  /\ LET m == mgrOf(k)
         t == this[m]
     IN IF t.audioContext # 0
        THEN /\ this' = [this EXCEPT ![m].nextStartTime = cursorOnArrival(t)]
             /\ decodes' = decodes \cup
                  {[id |-> nSeg + 1, k |-> k, dur |-> dur, intr |-> intr]}
             /\ epoch' = epoch
        ELSE /\ this' = [this EXCEPT ![m].nextStartTime =
                           IF intr THEN interruptedCursor(t) ELSE @]
             /\ decodes' = decodes
             /\ epoch' = IF intr THEN epoch + 1 ELSE epoch
  /\ UNCHANGED <<chan, closePending, closeCalls, micLive, outCtxOpen,
                 inCtxOpen, events, connectionState, connVars, callVars,
                 envVars, micVars, appVars, clock, sched, uncaught, toolVars>>

\* onmessage for a message carrying only the interrupted flag.
OnMessageInterrupted(k) ==
  /\ chan[k] = "open"
  /\ interruptsSeen < MaxInterrupts
  /\ this' = [this EXCEPT ![mgrOf(k)].nextStartTime =
                interruptedCursor(this[mgrOf(k)])]
  /\ epoch' = epoch + 1
  /\ UNCHANGED <<chan, closePending, closeCalls, micLive, outCtxOpen,
                 inCtxOpen, events, connectionState, connVars, callVars,
                 envVars, micVars, appVars, clock, decodes, sched, nSeg, uncaught, toolVars>>

\* this.audioContext.createBufferSource() after the await, with the context
\* null or not the one outputNode belongs to: the async handler rejects.
resumedWithoutContext(n) == n + 1

\* decodeAudioData resolves and the handler resumes.  createBufferSource
\* needs this.audioContext, and source.connect(outputNode) needs it to be the
\* context outputNode was made in: otherwise the handler throws and nothing
\* is scheduled.  Then the segment is started at the cursor, the cursor
\* advances, and the message's interruption, if any, is handled.
DecodeResolve(d) ==
  /\ d \in decodes
  /\ decodes' = decodes \ {d}
  /\ LET m == mgrOf(d.k)
         t == this[m]
         after == cursorAfterStart(t.nextStartTime, d.dur)
     IN IF t.audioContext = d.k
        THEN /\ sched' = Append(sched,
                  [id |-> d.id, k |-> d.k, start |-> t.nextStartTime,
                   dur |-> d.dur, ep |-> epoch])
             /\ this' = [this EXCEPT ![m].nextStartTime =
                           IF d.intr THEN interruptedCursor(t) ELSE after]
             /\ epoch' = IF d.intr THEN epoch + 1 ELSE epoch
             /\ uncaught' = uncaught
        ELSE /\ uncaught' = resumedWithoutContext(uncaught)
             /\ UNCHANGED <<sched, this, epoch>>
  /\ UNCHANGED <<chan, closePending, closeCalls, micLive, outCtxOpen,
                 inCtxOpen, events, connectionState, connVars, callVars,
                 envVars, micVars, appVars, clock, nSeg, toolVars>>

\* The audio clock of the manager's output context advances.
Tick ==
  /\ clock < MaxClock
  /\ this[1].audioContext # 0
  /\ clock' = clock + 1
  /\ UNCHANGED <<stVars, connVars, callVars, envVars, micVars, appVars, decodes, sched,
                 nSeg, epoch, uncaught, toolVars>>

\* ------------------------------------------------------- microphone level
\* The magnitudes getByteFrequencyData writes into a Uint8Array: the ends of
\* the range of a byte and values next to them and in the middle.
ByteSamples == {0, 1, 128, 254, 255}

\* The frames the analyser delivers: frequencyBinCount bytes each.
Frames == [1..MaxBins -> ByteSamples]

\* dataArray.reduce((a, b) => a + b), from element j on.
RECURSIVE reduceSum(_, _)
reduceSum(data, j) ==
  IF j > Len(data) THEN 0 ELSE data[j] + reduceSum(data, j + 1)

\* (a mean that is not divided by 255)
volumeUnscaled(data) == [num |-> reduceSum(data, 1), den |-> Len(data)]

\* avg / 255 with avg the sum over the length, as the fraction num / den.
\* Both divisions are correctly rounded, and rounding keeps the order of
\* values, so the double is within [0, 1] exactly when the fraction is.
volumeOf(data) == [num |-> reduceSum(data, 1), den |-> Len(data) * 255]

\* (a frame put ahead of the frames handed over before it)
realtimeInputFirst(out, f) == <<f>> \o out

\* sessionPromise.then(session => session.sendRealtimeInput(...)): the
\* promise is settled when onaudioprocess can fire, so the call is made as
\* soon as the callback returns, after the calls made for earlier frames.
sendRealtimeInput(out, f) == Append(out, f)

\* onaudioprocess of the processor of connect call k: it is set by onopen
\* and fires until disconnect() disconnects the processor.  The level is
\* reported and the frame is handed to the session.
OnAudioProcess(k, data) ==
  /\ chan[k] \in {"open", "closing", "closed"}
  /\ this[mgrOf(k)].processor = k
  /\ nFrames < MaxFrames
  /\ nFrames' = nFrames + 1
  /\ volume' = <<volumeOf(data)>>
  /\ handed' = sendRealtimeInput(handed,
                 [k |-> k, n |-> nFrames + 1, opened |-> chan[k] # "opening"])
  /\ UNCHANGED <<stVars, connVars, callVars, envVars, appVars, audioVars,
                 toolVars>>

\* ------------------------------------------------------------- tool calls
\* Text is a sequence of characters; "LF" is the line feed and "bullet" the
\* bullet character U+2022.
Bullets == {"-", "*", "bullet"}

\* text.split('\n'): the lines of a text; the empty text has one empty line.
RECURSIVE Split(_)
Split(text) ==
  IF \A i \in 1..Len(text) : text[i] # "LF" THEN <<text>>
  ELSE LET i == CHOOSE j \in 1..Len(text) :
                  text[j] = "LF" /\ \A h \in 1..(j - 1) : text[h] # "LF"
       IN <<SubSeq(text, 1, i - 1)>> \o Split(SubSeq(text, i + 1, Len(text)))

RECURSIVE trimStart(_)
trimStart(line) ==
  IF line # <<>> /\ Head(line) = " " THEN trimStart(Tail(line)) ELSE line

RECURSIVE trimEnd(_)
trimEnd(line) ==
  IF line # <<>> /\ line[Len(line)] = " "
  THEN trimEnd(SubSeq(line, 1, Len(line) - 1)) ELSE line

\* line.trim()
trim(line) == trimEnd(trimStart(line))

\* line.replace(/^[-*•]\s*/, ''): one leading bullet and the blanks after it.
stripBullet(line) ==
  IF line # <<>> /\ Head(line) \in Bullets THEN trimStart(Tail(line)) ELSE line

RECURSIVE nonEmpty(_)
nonEmpty(lines) ==
  IF lines = <<>> THEN <<>>
  ELSE IF Len(Head(lines)) > 0 THEN <<Head(lines)>> \o nonEmpty(Tail(lines))
       ELSE nonEmpty(Tail(lines))

\* The steps generateTroubleshootingTips takes from the generated text.
tipSteps(text) ==
  LET lines == Split(text)
      clean == nonEmpty([i \in 1..Len(lines) |-> trim(stripBullet(lines[i]))])
  IN SubSeq(clean, 1, IF Len(clean) < 3 THEN Len(clean) ELSE 3)

\* The texts the tips generation answers with: nothing; one bulleted step; a
\* blank and a bare bullet; four steps, bulleted or not, after an empty line;
\* an indented bullet; a step in bold (**a).
TipTexts ==
  { <<>>,
    <<"-", " ", "a">>,
    <<" ", "-", " ", "a">>,
    <<"*", "*", "a">>,
    <<" ", "LF", "-", " ">>,
    <<"LF", "a", "LF", "*", "b", "LF", "-", " ", "c", " ", "LF", "d">> }

\* The values of n this many apart, and the largest one.
sampled(stride) ==
  {n \in 0..(RandSteps - 1) : n % stride = 0} \cup {RandSteps - 1}

\* (a ticket number without the base of ten thousand)
ticketNumberNoBase(n) == (n * 90000) \div RandSteps

\* Math.floor(10000 + Math.random() * 90000), Math.random() being n / RandSteps.
ticketNumber(n) == 10000 + (n * 90000) \div RandSteps

DigitChars == <<"0", "1", "2", "3", "4", "5", "6", "7", "8", "9">>

\* The decimal digits of a number that is not negative, as string
\* concatenation writes them.
RECURSIVE toString(_)
toString(n) ==
  IF n < 10 THEN <<DigitChars[n + 1]>>
  ELSE toString(n \div 10) \o <<DigitChars[(n % 10) + 1]>>

\* 'T-' + Math.floor(...)
ticketIdOf(n) == <<"T", "-">> \o toString(ticketNumber(n))

\* The tools the session declares.
ToolNames == {"analyzeProblem", "registerSupportTicket"}

\* The arguments of a tool call: fc.args is optional, and the remote model
\* fills it as it likes: not at all, with an object without fields, with the
\* declared fields, or with the declared fields and a ticketId of its own.
Args == {"undefined", "empty", "fields", "fieldsAndTicketId"}

\* args.municipalidad || ''
municipalidadOf(args) ==
  IF args \in {"fields", "fieldsAndTicketId"} THEN <<"M">> ELSE <<>>

FunctionCalls == [name : ToolNames, args : Args]

\* msg.toolCall.functionCalls, for a message with n function calls.
Batches(n) == [1..n -> FunctionCalls]

\* (a function response that does not name its invocation)
functionResponseNoId(c, result) ==
  [id |-> 0, name |-> c.name, result |-> result]

\* The functionResponses object of a tool response.
functionResponse(c, result) ==
  [id |-> c.id, name |-> c.name, result |-> result]

\* (a tool response that is never handed to the session)
toolResponseDropped(out, k, fr) == out

\* sessionPromise.then(session => session.sendToolResponse(...)) on the
\* session of connect call k, whose promise is settled: the call is made
\* whatever has become of the channel.
sendToolResponse(out, k, fr) ==
  out (+) SetToBag({[k |-> k, open |-> chan[k] = "open", fr |-> fr]})

\* What the analyzeProblem tool result adds to the invocation's log: sent on
\* arrival, nothing more when the generation ends (gen).
ackOnArrival(log, gen) == IF gen THEN log ELSE Append(log, Event("tool-result", "ack"))

\* (the tool result sent ahead of the email-ready event)
draftReadyResultFirst(draft) ==
  <<Event("tool-result", "registered"), Event("email-ready", draft)>>

\* What generateEmailDraft does with a draft: onEmailReady, then the result.
draftReady(draft) ==
  <<Event("email-ready", draft), Event("tool-result", "registered")>>

\* What the registerSupportTicket branch emits before it starts the draft.
ticketCreated(id) == <<Event("ticket-created", id)>>

\* An invocation as it is received, before the handler has come to it.
received(id, fc, k) ==
  [id |-> id, name |-> fc.name, k |-> k, rand |-> 0, ticketId |-> <<>>,
   municipalidad |-> <<>>, pc |-> "skipped", text |-> <<>>, log |-> <<>>]

\* One turn of the loop over the function calls, for function call fc with
\* Math.random() returning n / RandSteps.  The tool result of analyzeProblem
\* is queued on the session promise, which is settled, so it is sent as soon
\* as the handler returns or throws; reading a field of undefined arguments
\* throws, and the function calls after it are never looked at.
dispatchOne(acc, fc, n, k) ==
  LET c == received(Len(acc.calls) + 1, fc, k)
      missing == fc.args = "undefined"
  IN IF acc.threw THEN [acc EXCEPT !.calls = Append(@, c)]
     ELSE IF fc.name = "analyzeProblem"
     THEN [calls |-> Append(acc.calls,
                     [c EXCEPT !.pc = IF missing THEN "threw" ELSE "gen",
                               !.log = ackOnArrival(<<>>, FALSE)]),
           sent |-> sendToolResponse(acc.sent, k, functionResponse(c, <<"ack">>)),
           threw |-> missing]
     ELSE [calls |-> Append(acc.calls,
                     IF missing THEN [c EXCEPT !.pc = "threw", !.rand = n]
                     ELSE [c EXCEPT !.pc = "gen", !.rand = n,
                                    !.ticketId = ticketIdOf(n),
                                    !.municipalidad = municipalidadOf(fc.args),
                                    !.log = ticketCreated(ticketIdOf(n))]),
           sent |-> acc.sent,
           threw |-> missing]

\* The outcomes of one turn of the loop: Math.random() is called for a
\* registerSupportTicket call only.
dispatchNext(acc, fc, k) ==
  IF fc.name = "registerSupportTicket" /\ ~acc.threw
  THEN {dispatchOne(acc, fc, n, k) : n \in randoms}
  ELSE {dispatchOne(acc, fc, 0, k)}

\* for (const fc of msg.toolCall.functionCalls), from function call j on.
RECURSIVE dispatch(_, _, _, _)
dispatch(accs, fcs, j, k) ==
  IF j > Len(fcs) THEN accs
  ELSE dispatch(UNION {dispatchNext(acc, fcs[j], k) : acc \in accs}, fcs, j + 1, k)

\* onmessage for a message carrying n function calls.
OnMessageToolCall(k, n) ==
  /\ chan[k] = "open"
  /\ Len(calls) + n <= quota.tools
  /\ \E fcs \in Batches(n) :
       \E acc \in dispatch({[calls |-> calls, sent |-> sent, threw |-> FALSE]},
                            fcs, 1, k) :
         calls' = acc.calls /\ sent' = acc.sent
  /\ UNCHANGED <<stVars, connVars, callVars, envVars, micVars, appVars, audioVars>>

\* (a failure shown to the user)
surfaced(s, k) == onError(s, k, "tips")

\* The catch block of generateTroubleshootingTips: console.error and no more.
swallowed(s, k) == s

\* (a solutions-ready event also for a text without steps)
solutionsReadyAlways(log, steps) == Append(log, Event("solutions-ready", steps))

\* if (steps.length > 0) this.onSolutionsReady(...)
solutionsReady(log, steps) ==
  IF Len(steps) > 0 THEN Append(log, Event("solutions-ready", steps)) ELSE log

\* The tips generation answers: the steps are shown if there are any.
TipsResolve(i, text) ==
  /\ i \in 1..Len(calls)
  /\ calls[i].name = "analyzeProblem"
  /\ calls[i].pc = "gen"
  /\ LET steps == tipSteps(text)
         done  == Append(calls[i].log, Event("generated", "ok"))
         shown == solutionsReady(done, steps)
     IN calls' = [calls EXCEPT ![i].pc = "done",
                               ![i].text = text,
                               ![i].log = ackOnArrival(shown, TRUE)]
  /\ UNCHANGED <<stVars, connVars, callVars, envVars, micVars, appVars, audioVars, sent>>

\* The tips generation fails: the failure is logged to the console only.
TipsReject(i) ==
  /\ i \in 1..Len(calls)
  /\ calls[i].name = "analyzeProblem"
  /\ calls[i].pc = "gen"
  /\ calls' = [calls EXCEPT
       ![i].pc = "done",
       ![i].log = ackOnArrival(Append(@, Event("generated", "failed")), TRUE)]
  /\ Commit(swallowed(St, calls[i].k))
  /\ UNCHANGED <<connVars, callVars, envVars, micVars, appVars, audioVars, sent>>

\* The text of an email draft is a sequence of characters too; the subject
\* marker counts as one character, in either case.
Markers == {"Asunto:", "asunto:"}

\* \s
isSpace(c) == c \in {" ", "LF"}

\* \s* at the head of a text: what is left after it.
RECURSIVE skipSpace(_)
skipSpace(t) == IF t # <<>> /\ isSpace(Head(t)) THEN skipSpace(Tail(t)) ELSE t

\* .* at the head of a text: up to the first line feed.
RECURSIVE upToLF(_)
upToLF(t) ==
  IF t = <<>> \/ Head(t) = "LF" THEN <<>> ELSE <<Head(t)>> \o upToLF(Tail(t))

\* What is left of a text after .* at its head.
RECURSIVE fromLF(_)
fromLF(t) == IF t = <<>> \/ Head(t) = "LF" THEN t ELSE fromLF(Tail(t))

\* What is left of a text after the line feeds at its head.
RECURSIVE skipLF(_)
skipLF(t) == IF t # <<>> /\ Head(t) = "LF" THEN skipLF(Tail(t)) ELSE t

RECURSIVE dropSpaceEnd(_)
dropSpaceEnd(t) ==
  IF t # <<>> /\ isSpace(t[Len(t)])
  THEN dropSpaceEnd(SubSeq(t, 1, Len(t) - 1)) ELSE t

\* String.prototype.trim on a text that may hold line feeds.
trimText(t) == dropSpaceEnd(skipSpace(t))

\* fullText.match(/^Asunto:\s*(.*)/i) finds a match.
subjectMatch(text) == text # <<>> /\ Head(text) \in Markers

\* subjectMatch[1]: blanks and line feeds after the marker belong to \s*.
subjectGroup(text) == upToLF(skipSpace(Tail(text)))

\* fullText.replace(/^Asunto:.*\n+/i, ''): the pattern needs a line feed after
\* the marker line.
withoutSubjectLine(text) ==
  IF subjectMatch(text) /\ fromLF(Tail(text)) # <<>>
  THEN skipLF(fromLF(Tail(text))) ELSE text

\* (a subject that quotes the ticket registered last)
fallbackSubjectLatest(c) ==
  <<"Ticket", " ">> \o calls[Len(calls)].ticketId
    \o <<" ", "-", " ", "Soporte", " ">> \o c.municipalidad

\* `Ticket ${ticketId} - Soporte ${municipalidad}`
fallbackSubject(c) ==
  <<"Ticket", " ">> \o c.ticketId \o <<" ", "-", " ", "Soporte", " ">>
    \o c.municipalidad

\* (a body trimmed also when there is no subject marker)
plainBodyTrimmed(text) == trimText(text)

\* The body of a draft whose text has no subject marker at its head.
plainBody(text) == text

\* The draft generateEmailDraft makes of the generated text for ticket c.
emailDraft(text, c) ==
  IF subjectMatch(text)
  THEN [subject |-> trimText(subjectGroup(text)),
        body |-> trimText(withoutSubjectLine(text))]
  ELSE [subject |-> fallbackSubject(c), body |-> plainBody(text)]

\* The texts the draft generation answers with: nothing; a text without
\* marker, with blanks around it; a subject line and a body; the same with an
\* empty line between them and the marker in lower case; a subject line and
\* nothing after it; a marker line without subject, then the body.
DraftTexts ==
  { <<>>,
    <<" ", "x", "LF", "y", " ">>,
    <<"Asunto:", " ", "x", " ", "LF", "y">>,
    <<"asunto:", "x", "LF", "LF", "y", "LF">>,
    <<"Asunto:", " ", "x">>,
    <<"Asunto:", "LF", "y">> }

\* (a drafting error reported after an empty draft was emitted)
draftFailedWithDraft(log) ==
  log \o <<Event("generated", "failed"),
           Event("email-ready", [subject |-> <<>>, body |-> <<>>]),
           Event("tool-result", "draft-failed")>>

\* What a failed draft generation adds to the invocation's log: the catch
\* block sends one tool result and emits no draft.
draftFailed(log) ==
  log \o <<Event("generated", "failed"), Event("tool-result", "draft-failed")>>

\* The draft generation answers: the draft is emitted, then the tool result
\* is sent.
DraftResolve(i, text) ==
  /\ i \in 1..Len(calls)
  /\ calls[i].name = "registerSupportTicket"
  /\ calls[i].pc = "gen"
  /\ calls' = [calls EXCEPT
       ![i].pc = "done",
       ![i].text = text,
       ![i].log = Append(@, Event("generated", "ok"))
                    \o draftReady(emailDraft(text, calls[i]))]
  /\ sent' = sendToolResponse(sent, calls[i].k,
               functionResponse(calls[i], <<"registered", calls[i].ticketId>>))
  /\ UNCHANGED <<stVars, connVars, callVars, envVars, micVars, appVars, audioVars>>

\* The draft generation fails: a tool result that says so is sent.
DraftReject(i) ==
  /\ i \in 1..Len(calls)
  /\ calls[i].name = "registerSupportTicket"
  /\ calls[i].pc = "gen"
  /\ calls' = [calls EXCEPT
       ![i].pc = "done",
       ![i].log = draftFailed(@)]
  /\ sent' = sendToolResponse(sent, calls[i].k,
               functionResponse(calls[i], <<"draft-failed", calls[i].ticketId>>))
  /\ UNCHANGED <<stVars, connVars, callVars, envVars, micVars, appVars, audioVars>>

\* One session in which several tickets are registered: Math.random() at both
\* ends of its range, drafts with and without a subject line.
InitPair ==
  /\ mode = "api"
  /\ quota = [connect |-> SessConnects, disconnect |-> 0, tools |-> MaxToolCalls]
  /\ randoms = {0, RandSteps - 1}
  /\ texts = [tips |-> {<<>>}, draft |-> {<<>>, <<"Asunto:", " ", "x">>}]
  /\ InitCommon

\* A LiveManager used directly by a caller that connects again after a
\* session has ended.
InitReplay ==
  /\ mode = "api"
  /\ quota = [connect |-> Sessions, disconnect |-> SessDisconnects, tools |-> 0]
  /\ randoms = {}
  /\ texts = [tips |-> {}, draft |-> {}]
  /\ InitCommon

\* A LiveManager used directly, with tool calls on its channel.
InitTools ==
  /\ mode = "api"
  /\ quota = [connect |-> SessConnects, disconnect |-> SessDisconnects,
              tools |-> MaxToolCalls]
  /\ randoms = {0}
  /\ texts = [tips |-> {<<>>, <<"-", " ", "a">>},
              draft |-> {<<"Asunto:", " ", "x", " ", "LF", "y">>}]
  /\ InitCommon

\* The same, with Math.random() sampled over its range.
InitTicket ==
  /\ mode = "api"
  /\ quota = [connect |-> SessConnects, disconnect |-> SessDisconnects,
              tools |-> TicketCalls]
  /\ randoms = sampled(RandStride)
  /\ texts = [tips |-> {<<>>}, draft |-> {<<>>}]
  /\ InitCommon

\* The same, with every text the generations may answer with.
InitText ==
  /\ mode = "api"
  /\ quota = [connect |-> SessConnects, disconnect |-> SessDisconnects,
              tools |-> TextCalls]
  /\ randoms = {0}
  /\ texts = [tips |-> TipTexts, draft |-> DraftTexts]
  /\ InitCommon

\* ------------------------------------------------------------------ specs
\* Any use of one LiveManager: connect() and disconnect() at any moment,
\* every outcome of the microphone request and of the channel.
NextLife ==
  \/ \E k \in ConnIds : Connect(k)
  \/ \E k \in ConnIds : GetUserMediaResolve(k)
  \/ \E k \in ConnIds, name \in Causes : GetUserMediaReject(k, name)
  \/ \E k \in ConnIds : OnOpen(k)
  \/ \E k \in ConnIds : OnClose(k)
  \/ \E k \in ConnIds : OnError(k)
  \/ \E k \in ConnIds : ConnectThrows(k)
  \/ \E k \in ConnIds : SetupThrows(k)
  \/ Disconnect

SpecLife == Init /\ [][NextLife]_vars

\* Audio traffic on the channel of a manager whose caller starts one session
\* at a time and may disconnect at any moment; the microphone is granted.
NextAudio ==
  \/ \E k \in ConnIds : ConnectNext(k)
  \/ \E k \in ConnIds : GetUserMediaResolve(k)
  \/ \E k \in ConnIds : OnOpen(k)
  \/ \E k \in ConnIds : OnClose(k)
  \/ Disconnect
  \/ \E k \in ConnIds, dur \in Durations, intr \in BOOLEAN :
       OnMessageAudio(k, dur, intr)
  \/ \E k \in ConnIds : OnMessageInterrupted(k)
  \/ \E d \in decodes : DecodeResolve(d)
  \/ Tick

SpecAudio == InitSession /\ [][NextAudio]_vars

\* Audio segments on the sessions of a manager that is connected again after
\* a session has ended; no interruptions.
NextReplay ==
  \/ \E k \in ConnIds : ConnectNext(k)
  \/ \E k \in ConnIds : GetUserMediaResolve(k)
  \/ \E k \in ConnIds : OnOpen(k)
  \/ \E k \in ConnIds : OnClose(k)
  \/ Disconnect
  \/ \E k \in ConnIds, dur \in Durations : OnMessageAudio(k, dur, FALSE)
  \/ \E d \in decodes : DecodeResolve(d)
  \/ Tick

SpecReplay == InitReplay /\ [][NextReplay]_vars

\* App driving its managers.
NextApp ==
  \/ \E k \in ConnIds : HandleConnect(k)
  \/ \E k \in ConnIds : HandleConnectThrows(k)
  \/ \E k \in ConnIds : GetUserMediaResolve(k)
  \/ \E k \in ConnIds, name \in Causes : GetUserMediaReject(k, name)
  \/ \E k \in ConnIds : OnOpen(k)
  \/ \E k \in ConnIds : OnClose(k)
  \/ \E k \in ConnIds : OnError(k)
  \/ DisconnectSession
  \/ ResetTimer

SpecApp == InitApp /\ [][NextApp]_vars

\* Tool calls on the channel of a manager whose caller starts one session at
\* a time and may disconnect at any moment; the microphone is granted.
NextTools ==
  \/ \E k \in ConnIds : ConnectNext(k)
  \/ \E k \in ConnIds : GetUserMediaResolve(k)
  \/ \E k \in ConnIds : OnOpen(k)
  \/ \E k \in ConnIds : OnClose(k)
  \/ Disconnect
  \/ \E k \in ConnIds, n \in 1..MaxBatch : OnMessageToolCall(k, n)
  \/ \E i \in 1..Len(calls), text \in texts.tips : TipsResolve(i, text)
  \/ \E i \in 1..Len(calls) : TipsReject(i)
  \/ \E i \in 1..Len(calls), text \in texts.draft : DraftResolve(i, text)
  \/ \E i \in 1..Len(calls) : DraftReject(i)

SpecTools == InitTools /\ [][NextTools]_vars

SpecTicket == InitTicket /\ [][NextTools]_vars

SpecText == InitText /\ [][NextTools]_vars

\* Tool calls on a channel that stays open.
NextPair ==
  \/ \E k \in ConnIds : ConnectNext(k)
  \/ \E k \in ConnIds : GetUserMediaResolve(k)
  \/ \E k \in ConnIds : OnOpen(k)
  \/ \E k \in ConnIds, n \in 1..MaxBatch : OnMessageToolCall(k, n)
  \/ \E i \in 1..Len(calls), text \in texts.tips : TipsResolve(i, text)
  \/ \E i \in 1..Len(calls) : TipsReject(i)
  \/ \E i \in 1..Len(calls), text \in texts.draft : DraftResolve(i, text)
  \/ \E i \in 1..Len(calls) : DraftReject(i)

SpecPair == InitPair /\ [][NextPair]_vars

\* The microphone level of a manager whose caller starts one session at a
\* time and may disconnect at any moment; the microphone is granted.
NextVolume ==
  \/ \E k \in ConnIds : ConnectNext(k)
  \/ \E k \in ConnIds : GetUserMediaResolve(k)
  \/ \E k \in ConnIds : OnOpen(k)
  \/ \E k \in ConnIds : OnClose(k)
  \/ Disconnect
  \/ \E k \in ConnIds, data \in Frames : OnAudioProcess(k, data)

SpecVolume == InitSession /\ [][NextVolume]_vars

\* ----------------------------------------------------------------- claims
cursor == this[1].nextStartTime

\* An audio segment arrived and its decode is now awaited.
SegmentArrives == nSeg' = nSeg + 1 /\ decodes' # decodes

\* source.start was called.
SegmentStarts == Len(sched') = Len(sched) + 1

\* C1: playback scheduling is sequential.  On arrival of a segment the cursor
\* becomes max(cursor, clock); the segment is started at the cursor and the
\* cursor then advances by its duration; so of two segments started one after
\* the other with no interruption handled in between, the later one starts no
\* earlier than the earlier one ends.
C1_SequentialPlayback ==
  /\ [](\A i \in 2..Len(sched) :
          sched[i].ep = sched[i-1].ep
            => sched[i].start >= sched[i-1].start + sched[i-1].dur)
  /\ [][/\ SegmentArrives => /\ cursor' >= cursor
                              /\ cursor' >= clock
                              /\ cursor' \in {cursor, clock}
        /\ SegmentStarts =>
             LET e == sched'[Len(sched')]
             IN /\ e.start = cursor
                /\ epoch' = epoch => cursor' = e.start + e.dur]_vars

\* Two segments were started back to back: the first at the clock's time, the
\* second exactly where the first ends.
C1_Witness ==
  /\ Len(sched) = 2
  /\ sched[1].ep = sched[2].ep
  /\ sched[1].start > 0
  /\ sched[2].start = sched[1].start + sched[1].dur

\* C2: every interruption signal sets the cursor to the audio clock's current
\* time, never to zero, and so to no more than a cursor value that lay in the
\* future.
C2_InterruptionSetsClock ==
  [][epoch' = epoch + 1 =>
       /\ cursor' = clock
       /\ cursor > clock => cursor' <= cursor]_vars

\* How many events of kind e a log holds.
count(log, e) == Cardinality({j \in 1..Len(log) : log[j].e = e})

\* The places of the events of kind e in a log.
places(log, e) == {j \in 1..Len(log) : log[j].e = e}

\* C3: every analyzeProblem invocation gets exactly one tool result, and it is
\* sent before the tips generation started for the invocation ends, whether
\* the generation succeeds or fails and however long it takes: the result is
\* the first entry of the invocation's log, it is there while the generation
\* is still running, and the end of the generation adds no other.
C3_AckBeforeTips ==
  \A i \in 1..Len(calls) :
    calls[i].name = "analyzeProblem" =>
      /\ count(calls[i].log, "tool-result") = 1
      /\ calls[i].log[1] = Event("tool-result", "ack")
      /\ \A g \in places(calls[i].log, "generated") : g > 1
      /\ calls[i].pc = "gen" => calls[i].log = <<Event("tool-result", "ack")>>

\* C4: the tool result of a registerSupportTicket invocation is sent only
\* after the draft generation has ended, in success or in failure, and it is
\* the invocation's last action: none is sent while the generation runs; once
\* it has ended the log holds exactly one, at its end, after the ticket-created
\* event, the end of the generation and the email-ready event if there is one.
C4_ResultAfterDraft ==
  \A i \in 1..Len(calls) :
    calls[i].name = "registerSupportTicket" =>
      LET log == calls[i].log
      IN /\ calls[i].pc # "done" => count(log, "tool-result") = 0
         /\ calls[i].pc = "gen" => log = <<Event("ticket-created", calls[i].ticketId)>>
         /\ calls[i].pc = "done" =>
              /\ places(log, "tool-result") = {Len(log)}
              /\ places(log, "ticket-created") = {1}
              /\ count(log, "generated") = 1
              /\ count(log, "email-ready") <= 1
              /\ \A g \in places(log, "generated") : g < Len(log)
              /\ \A m \in places(log, "email-ready") :
                   m < Len(log) /\ \A g \in places(log, "generated") : g < m

\* One invocation ended with a draft: ticket-created, email-ready and then the
\* tool result; another ended without one.
C4_Witness ==
  \E i, j \in 1..Len(calls) :
    /\ calls[i].log = <<Event("ticket-created", calls[i].ticketId),
                        Event("generated", "ok"),
                        Event("email-ready", emailDraft(calls[i].text, calls[i])),
                        Event("tool-result", "registered")>>
    /\ calls[j].log = <<Event("ticket-created", calls[j].ticketId),
                        Event("generated", "failed"),
                        Event("tool-result", "draft-failed")>>

\* The number a string of decimal digits writes.
RECURSIVE decimalValue(_)
decimalValue(str) ==
  IF str = <<>> THEN 0
  ELSE 10 * decimalValue(SubSeq(str, 1, Len(str) - 1))
       + (CHOOSE d \in 0..9 : DigitChars[d + 1] = str[Len(str)])

\* C5: every ticket identifier of a ticket-created event is "T-" followed by
\* exactly five decimal digits; they write floor(10000 + r * 90000), which
\* lies in 10000..99999 for every r = n / RandSteps; the identifier comes from
\* the draw alone, whatever the arguments of the tool call hold.
C5_TicketIdFormat ==
  \A i \in 1..Len(calls) :
    \A j \in places(calls[i].log, "ticket-created") :
      LET id == calls[i].log[j].msg
          n  == calls[i].rand
      IN /\ Len(id) = 7
         /\ id[1] = "T" /\ id[2] = "-"
         /\ \A h \in 3..7 : \E d \in 1..10 : DigitChars[d] = id[h]
         /\ decimalValue(SubSeq(id, 3, 7)) \in 10000..99999
         /\ decimalValue(SubSeq(id, 3, 7)) = 10000 + (n * 90000) \div RandSteps

\* A ticket was created for the largest value of r.
C5_Witness ==
  /\ Len(calls) >= 1
  /\ calls[1].name = "registerSupportTicket"
  /\ calls[1].rand = RandSteps - 1
  /\ Len(calls[1].log) >= 1
  /\ calls[1].log[1].e = "ticket-created"
  /\ calls[1].log[1].msg[3] = "9"
  /\ Len(calls[1].log[1].msg) = 7

\* The handles disconnect() clears.
handlesNull(t) ==
  /\ t.processor = 0
  /\ t.inputSource = 0
  /\ t.stream = 0
  /\ t.audioContext = 0

\* How often k is in the cleanup list.
registered(fns, k) == Cardinality({i \in 1..Len(fns) : fns[i] = k})

\* C6: disconnect() is idempotent.  In every state, calling it twice in a row
\* runs each registered cleanup action exactly once, in the first call; after
\* the first call the cleanup list is empty and the four handles are null;
\* the second call changes nothing.  No cleanup action ever runs twice.
C6_DisconnectIdempotent ==
  LET s1 == disconnect(St, 1)
      s2 == disconnect(s1, 1)
  IN /\ \A k \in ConnIds :
          s1.closeCalls[k] =
            closeCalls[k] + registered(this[1].cleanupFunctions, k)
     /\ s1.this[1].cleanupFunctions = <<>>
     /\ handlesNull(s1.this[1])
     /\ s2 = s1
     /\ \A k \in ConnIds : closeCalls[k] <= 1

\* disconnect() was called twice in a row on a manager with an open channel:
\* the channel's cleanup action ran once and the handles are null.
C6_Witness ==
  /\ discRow = 2
  /\ chan[1] = "closing"
  /\ closeCalls[1] = 1
  /\ this[1].cleanupFunctions = <<>>
  /\ handlesNull(this[1])

\* C7, as claimed: once connect() and a disconnect() that came after it was
\* called have both finished, no microphone stream is unstopped, no audio
\* context is open and no channel is open or about to open unclosed.
C7_NoLeak ==
  (discRow >= 1 /\ \A k \in ConnIds : connectPc[k] # "mic")
    => /\ micLive = {}
       /\ outCtxOpen = {}
       /\ inCtxOpen = {}
       /\ \A k \in ConnIds :
            /\ chan[k] # "open"
            /\ chan[k] = "opening" => k \in closePending

\* C8, as claimed: one manager never has two open channels or two live
\* microphone streams at once.
C8_AtMostOneSession ==
  /\ Cardinality({k \in ConnIds : chan[k] = "open"}) <= 1
  /\ Cardinality(micLive) <= 1

\* C9, as claimed: a connect() whose microphone request fails emits exactly
\* one error event, with the message of the cause, followed by the closed
\* event; it opens no channel, and the manager is torn down when it ends.
C9_MicFailureReported ==
  /\ [](\A k \in ConnIds :
          connectPc[k] = "failed" =>
            LET claimed ==
                  CASE micErr[k] = "NotAllowedError" -> "permission-denied"
                    [] micErr[k] = "PermissionDeniedError" -> "permission-denied"
                    [] micErr[k] = "NotFoundError" -> "device-not-found"
                    [] micErr[k] = "NotReadableError" -> "device-busy"
                    [] OTHER -> "generic"
            IN /\ events[k] = <<Event("error", claimed), Event("closed", "")>>
               /\ chan[k] = "none")
  /\ [][\A k \in ConnIds :
          (connectPc[k] = "mic" /\ connectPc'[k] = "failed")
            => /\ handlesNull(this'[1])
               /\ this'[1].cleanupFunctions = <<>>]_vars

\* The connection states set in the course of connect call k.
RECURSIVE statesOf(_)
statesOf(evs) ==
  IF evs = <<>> THEN <<>>
  ELSE IF Head(evs).e = "state"
       THEN <<Head(evs).msg>> \o statesOf(Tail(evs))
       ELSE statesOf(Tail(evs))

\* C10, as claimed: an attempt whose microphone request fails takes the
\* connection state through CONNECTING and ERROR to DISCONNECTED and never
\* makes it CONNECTED; while it is the latest attempt the state is not
\* CONNECTED.
C10_FailedConnectStates ==
  \A k \in ConnIds :
    connectPc[k] = "failed" =>
      /\ \A i \in 1..Len(statesOf(events[k])) :
           statesOf(events[k])[i] # "CONNECTED"
      /\ statesOf(events[k])[1] = "CONNECTING"
      /\ (\A j \in ConnIds : j > k => connectPc[j] = "idle")
           => connectionState \in {"ERROR", "DISCONNECTED"}

\* The manager of connect call k is torn down.
tornDown(t) == handlesNull(t) /\ t.cleanupFunctions = <<>>

\* The events connect call k gains in a step.
gained(k) == SubSeq(events'[k], Len(events[k]) + 1, Len(events'[k]))

\* C11: a remote close and a remote error both end in a torn-down manager and
\* a closed event.  The step in which a channel reaches its closed state adds
\* exactly the closed event for it; the step that reports a connectivity error
\* adds exactly that error event and then the closed event; after either step
\* the four handles are null and the cleanup list is empty.
C11_RemoteEndTearsDown ==
  [][\A k \in ConnIds :
       /\ (chan[k] # "closed" /\ chan'[k] = "closed")
            => /\ gained(k) = <<Event("closed", "")>>
               /\ tornDown(this'[mgrOf(k)])
       /\ (\E i \in 1..Len(gained(k)) :
              gained(k)[i] = Event("error", "connectivity"))
            => /\ gained(k) = <<Event("error", "connectivity"), Event("closed", "")>>
               /\ tornDown(this'[mgrOf(k)])]_vars

\* C11 witness: one session was ended by the remote side closing its open
\* channel, another by a remote error on its open channel, and the manager is
\* torn down.
C11_Witness ==
  /\ events[1] = <<Event("closed", "")>>
  /\ chan[1] = "closed"
  /\ events[2] = <<Event("error", "connectivity"), Event("closed", "")>>
  /\ chan[2] = "closing"
  /\ nDisconnect = 0
  /\ tornDown(this[1])

\* The tool responses sent for invocation c on its channel with this result.
sentFor(c, result) ==
  {r \in BagToSet(sent) : r.k = c.k /\ r.fr.id = c.id /\ r.fr.result[1] = result}

\* How many tool responses were sent for invocation c on its channel.
sentCount(c) ==
  LET rs == {r \in BagToSet(sent) : r.k = c.k /\ r.fr.id = c.id}
      RECURSIVE sum(_)
      sum(S) == IF S = {} THEN 0
                ELSE LET r == CHOOSE x \in S : TRUE
                     IN CopiesIn(r, sent) + sum(S \ {r})
  IN sum(rs)

\* C12: when the draft generation of a registerSupportTicket invocation
\* fails, exactly one tool result is sent for the invocation, it says that the
\* ticket with its id was registered despite the drafting error, and no
\* email-ready event is emitted for it; and no drafting-error result is sent
\* for an invocation whose email-ready event was emitted.
C12_DraftFailureReported ==
  \A i \in 1..Len(calls) :
    LET c == calls[i]
    IN /\ Event("generated", "failed") \in {c.log[j] : j \in 1..Len(c.log)}
          /\ c.name = "registerSupportTicket"
          => /\ count(c.log, "tool-result") = 1
             /\ c.log[Len(c.log)] = Event("tool-result", "draft-failed")
             /\ count(c.log, "email-ready") = 0
             /\ sentCount(c) = 1
             /\ \A r \in sentFor(c, "draft-failed") : r.fr.result[2] = c.ticketId
             /\ sentFor(c, "draft-failed") # {}
       /\ count(c.log, "email-ready") > 0
          => /\ Event("tool-result", "draft-failed")
                  \notin {c.log[j] : j \in 1..Len(c.log)}
             /\ sentFor(c, "draft-failed") = {}

\* C12 witness: the draft generation of one invocation failed and its only
\* tool response, which carries the ticket id, reports the drafting error;
\* the draft of another invocation was emitted and its tool response reports
\* the registration.
C12_Witness ==
  \E i, j \in 1..Len(calls) :
    /\ Len(calls[i].log) = 3
    /\ calls[i].log[2] = Event("generated", "failed")
    /\ sentCount(calls[i]) = 1
    /\ \E r \in sentFor(calls[i], "draft-failed") :
         r.fr.result[2] = calls[i].ticketId /\ Len(calls[i].ticketId) = 7
    /\ count(calls[j].log, "email-ready") = 1
    /\ sentFor(calls[j], "registered") # {}

\* C13: for every registerSupportTicket invocation received, ticket-created
\* is emitted exactly once, in the handler of the message that carried the
\* invocation: it is the first entry of the invocation's log from the
\* invocation's arrival on, ahead of the start of the draft generation and of
\* any email-ready event.
C13_TicketCreatedOnArrival ==
  \A i \in 1..Len(calls) :
    calls[i].name = "registerSupportTicket" =>
      /\ places(calls[i].log, "ticket-created") = {1}
      /\ calls[i].log[1] = Event("ticket-created", calls[i].ticketId)

\* C14: a failure of the tips generation is swallowed.  The step in which a
\* tips generation fails emits no event of the session, leaves the manager,
\* the channels and the connection state as they are, sends no tool response
\* and adds nothing but the failure to the invocation's log; and an
\* invocation whose generation has ended never changes again (no retry).
C14_TipsFailureSwallowed ==
  [][\A i \in 1..Len(calls) :
       /\ (/\ calls[i].name = "analyzeProblem"
           /\ calls[i].pc = "gen"
           /\ Event("generated", "failed")
                \in {calls'[i].log[j] : j \in 1..Len(calls'[i].log)})
          => /\ events' = events
             /\ chan' = chan
             /\ this' = this
             /\ connectionState' = connectionState
             /\ sent' = sent
             /\ calls'[i].log = Append(calls[i].log, Event("generated", "failed"))
             /\ count(calls'[i].log, "solutions-ready") = 0
             /\ count(calls'[i].log, "tool-result") = 1
             /\ calls'[i].pc = "done"
       /\ (calls[i].name = "analyzeProblem" /\ calls[i].pc = "done")
          => calls'[i] = calls[i]]_vars

\* C14 witness: a tips generation has failed on a session whose channel is
\* still open, and the one tool response of the invocation is the
\* acknowledgement sent on arrival.
C14_Witness ==
  \E i \in 1..Len(calls) :
    /\ calls[i].log = <<Event("tool-result", "ack"), Event("generated", "failed")>>
    /\ chan[calls[i].k] = "open"
    /\ events[calls[i].k] = <<>>
    /\ sentCount(calls[i]) = 1

\* The draft emitted for invocation c, if one was.
draftsOf(c) == {c.log[j].msg : j \in places(c.log, "email-ready")}

\* A text holds a subject marker somewhere.
hasMarker(t) == \E j \in 1..Len(t) : t[j] \in Markers

\* C15: for every generated text whose first line starts with the subject
\* marker, in either case, the subject of the draft is the rest of that first
\* line, trimmed, and the body of the draft does not hold the subject line;
\* also when nothing follows the marker line and when the marker line has no
\* subject.
C15_SubjectLineParsed ==
  \A i \in 1..Len(calls) :
    \A d \in draftsOf(calls[i]) :
      LET text == calls[i].text
      IN (text # <<>> /\ Head(text) \in Markers)
           => /\ d.subject = trimText(Tail(upToLF(text)))
              /\ ~hasMarker(d.body)

\* C16: for every generated text without subject marker the subject of the
\* draft is 'Ticket <ticketId> - Soporte <municipalidad>' and the body is the
\* generated text, unchanged.
C16_FallbackSubject ==
  \A i \in 1..Len(calls) :
    \A d \in draftsOf(calls[i]) :
      LET c == calls[i]
      IN ~hasMarker(c.text)
           => /\ d.subject = <<"Ticket", " ">> \o c.ticketId
                               \o <<" ", "-", " ", "Soporte", " ">>
                               \o c.municipalidad
              /\ d.body = c.text

\* C16 witness: a draft was made of a text without marker that has blanks
\* around it, for a ticket with a municipality: the body is that text and the
\* subject has the fifteen characters of the default.
C16_Witness ==
  \E i \in 1..Len(calls) :
    /\ calls[i].text = <<" ", "x", "LF", "y", " ">>
    /\ calls[i].municipalidad = <<"M">>
    /\ \E d \in draftsOf(calls[i]) :
         d.body = calls[i].text /\ Len(d.subject) = 15

\* The steps shown for invocation c: none if no solutions-ready was emitted.
stepsOf(c) ==
  IF places(c.log, "solutions-ready") = {} THEN <<>>
  ELSE c.log[CHOOSE j \in places(c.log, "solutions-ready") : TRUE].msg

\* C17: the steps taken from a generated tips text are at most three, none
\* of them is empty and none begins with a bullet marker.
C17_StepsClean ==
  \A i \in 1..Len(calls) :
    LET steps == stepsOf(calls[i])
    IN /\ Len(steps) <= 3
       /\ \A j \in 1..Len(steps) :
            steps[j] # <<>> /\ Head(steps[j]) \notin Bullets

\* C18: a generation that is in flight when disconnect() runs still ends, and
\* its end leaves the torn-down session alone: every sendToolResponse call
\* is made on a session whose channel is open, none on one that disconnect()
\* or the remote side has closed.
C18_NoSendAfterClose ==
  \A r \in BagToSet(sent) : r.open

\* C19: every tool response sent carries the id and the name of an
\* invocation received before on the same channel, and no invocation gets
\* more than one, whether the invocations came one per message or several
\* in one message, and however their generations overlap.
C19_ResponsesMatchInvocations ==
  /\ \A r \in BagToSet(sent) :
       \E i \in 1..Len(calls) :
         calls[i].k = r.k /\ calls[i].id = r.fr.id /\ calls[i].name = r.fr.name
  /\ \A i \in 1..Len(calls) : sentCount(calls[i]) <= 1

\* C19 witness: two invocations with different names were received on one
\* channel, both generations have ended, and each invocation has been
\* answered once with its own id and name.
C19_Witness ==
  /\ Len(calls) = 2
  /\ calls[1].k = calls[2].k
  /\ calls[1].name # calls[2].name
  /\ calls[1].pc = "done" /\ calls[2].pc = "done"
  /\ \A i \in 1..2 :
       /\ sentCount(calls[i]) = 1
       /\ \E r \in BagToSet(sent) :
            r.fr.id = calls[i].id /\ r.fr.name = calls[i].name

\* C20: every value passed to the volume callback lies in [0, 1].
C20_VolumeInUnitInterval ==
  \A j \in 1..Len(volume) :
    /\ volume[j].den > 0
    /\ 0 <= volume[j].num
    /\ volume[j].num <= volume[j].den

\* C20 witness: a frame with every magnitude at 255 was reported as 1.
C20_Witness ==
  /\ volume # <<>>
  /\ volume[1].num = volume[1].den
  /\ volume[1].num = 255 * MaxBins

\* C21: an interruption discards what is scheduled and has not started.  Once
\* an interruption signal has been handled, no segment that was started with
\* source.start before it is still due to begin after the time of the
\* interruption; and of two segments started one after the other the later
\* one never begins inside the earlier one, an interruption in between or
\* not.
C21_InterruptionDiscardsScheduled ==
  /\ [][epoch' = epoch + 1 =>
          \A i \in 1..Len(sched') : sched'[i].start <= clock]_vars
  /\ [](\A i \in 2..Len(sched) :
          sched[i].start >= sched[i-1].start + sched[i-1].dur)

\* C22: the cursor is updated safely when handlers overlap.  However the
\* decodes of segments that arrived one after the other end, the segments are
\* started in the order of their arrival, no segment begins inside the one
\* started before it, and no segment is started at a time the audio clock has
\* already passed.
C22_ReentrantScheduling ==
  /\ [](\A i \in 2..Len(sched) :
          /\ sched[i].id > sched[i-1].id
          /\ sched[i].ep = sched[i-1].ep
               => sched[i].start >= sched[i-1].start + sched[i-1].dur)
  /\ [][SegmentStarts => sched'[Len(sched')].start >= clock]_vars

\* C23: captured frames are handed over at once and in capture order.  The
\* step that captures a frame hands it to the session, whatever has become of
\* the frames before it; the frames handed over are the frames captured, each
\* once, in the order of capture; and none is handed over for a channel that
\* has not opened.
C23_FramesInCaptureOrder ==
  /\ [](/\ Len(handed) = nFrames
        /\ \A i \in 1..Len(handed) :
             /\ handed[i].n = i
             /\ handed[i].opened
             /\ chan[handed[i].k] \notin {"none", "opening"})
  /\ [][nFrames' = nFrames + 1 =>
          /\ Len(handed') = Len(handed) + 1
          /\ handed'[Len(handed')].n = nFrames']_vars

\* C23 witness: two frames were captured on an open channel and handed over
\* in the order of their capture.
C23_Witness ==
  /\ nFrames = 2
  /\ Len(handed) = 2
  /\ handed[1].n = 1 /\ handed[2].n = 2
  /\ chan[handed[2].k] = "open"

\* An entry of a log.
logged(c, ev) == \E j \in 1..Len(c.log) : c.log[j] = ev

\* C24: a solutions-ready event is emitted for an analyzeProblem invocation
\* exactly when its tips generation has succeeded and the generated text
\* gives at least one step; it is emitted at most once, and the steps it
\* carries are between one and three.
C24_SolutionsReadyIffSteps ==
  \A i \in 1..Len(calls) :
    LET c == calls[i]
    IN c.name = "analyzeProblem" =>
         /\ count(c.log, "solutions-ready") <= 1
         /\ count(c.log, "solutions-ready") = 1
              <=> (logged(c, Event("generated", "ok")) /\ tipSteps(c.text) # <<>>)
         /\ \A j \in places(c.log, "solutions-ready") :
              /\ Len(c.log[j].msg) \in 1..3
              /\ c.log[j].msg = tipSteps(c.text)

\* C24 witness: one generation succeeded with a text of four lines and three
\* steps are shown.
C24_Witness ==
  \E i \in 1..Len(calls) :
    /\ calls[i].name = "analyzeProblem"
    /\ Len(Split(calls[i].text)) > 4
    /\ count(calls[i].log, "solutions-ready") = 1
    /\ Len(stepsOf(calls[i])) = 3

\* C25: the tool result of a registerSupportTicket invocation goes with the
\* end of its draft generation.  While the generation is pending no tool
\* response has been handed over for the invocation; once it has resolved or
\* rejected exactly one has; and the only step that hands one over for the
\* invocation is the step in which its generation ends.
C25_ResultWithDraftEnd ==
  /\ [](\A i \in 1..Len(calls) :
          calls[i].name = "registerSupportTicket" =>
            /\ calls[i].pc = "gen" => sentCount(calls[i]) = 0
            /\ calls[i].pc = "done" => sentCount(calls[i]) = 1)
  /\ [][\A i \in 1..Len(calls) :
          (/\ calls[i].name = "registerSupportTicket"
           /\ sentCount(calls[i])' # sentCount(calls[i]))
            => calls[i].pc = "gen" /\ calls'[i].pc = "done"]_vars

\* C25 witness: the draft generation of one invocation has ended and its one
\* tool response has been handed over, while the generation of another is
\* pending and nothing has been handed over for it.
C25_Witness ==
  \E i, j \in 1..Len(calls) :
    /\ calls[i].name = "registerSupportTicket" /\ calls[i].pc = "done"
    /\ sentCount(calls[i]) = 1
    /\ calls[j].name = "registerSupportTicket" /\ calls[j].pc = "gen"
    /\ sentCount(calls[j]) = 0

\* Connect call k has had no audio segment yet.
noSegmentYet(k) ==
  /\ \A d \in decodes : d.k # k
  /\ \A i \in 1..Len(sched) : sched[i].k # k

\* C26: the cursor starts anew with every session.  When the first audio
\* segment of a session arrives, also of a session on a manager that was
\* connected before and has played audio, the cursor becomes the time the
\* audio clock of the session shows, which is where the segment is started.
C26_CursorPerSession ==
  [][\A k \in ConnIds :
       (/\ SegmentArrives
        /\ noSegmentYet(k)
        /\ \E d \in decodes' : d.k = k)
         => cursor' = clock]_vars

\* C27: a segment whose decode is awaited when disconnect() runs is dropped
\* without harm.  When the decode of a segment ends on a manager whose audio
\* context is null, nothing is started and no exception is raised.
C27_LateDecodeDropped ==
  [][\A d \in decodes :
       (d \notin decodes' /\ this[mgrOf(d.k)].audioContext = 0)
         => sched' = sched /\ uncaught' = uncaught]_vars

\* C28: the closed event is emitted at most once for a session.  No connect
\* call ever has two closed events; and the close callback the channel
\* delivers for a close this side asked for, in a teardown or in a
\* disconnect() of the caller, adds none.
C28_ClosedOnce ==
  /\ [](\A k \in ConnIds : count(events[k], "closed") <= 1)
  /\ [][\A k \in ConnIds :
          (chan[k] = "closing" /\ chan'[k] = "closed")
            => count(events'[k], "closed") = count(events[k], "closed")]_vars

\* C29: every failed connect() reports its failure.  A connect call that has
\* failed has exactly one error event, and it comes before its closed event.
C29_FailedConnectReported ==
  \A k \in ConnIds :
    connectPc[k] \in {"failed", "aborted"} =>
      /\ count(events[k], "error") = 1
      /\ \A e \in places(events[k], "error"), c \in places(events[k], "closed") :
           e < c
      /\ count(events[k], "closed") >= 1

\* The ticket ids the events of a log carry: the ticket-created event's, and
\* the one quoted by a subject that was not taken from the generated text.
createdIds(c) ==
  {c.log[j].msg : j \in places(c.log, "ticket-created")}

quotedIds(c) ==
  {SubSeq(c.log[j].msg.subject, 3, Len(c.log[j].msg.subject) - 5
                                   - Len(c.municipalidad)) :
     j \in {p \in places(c.log, "email-ready") : ~subjectMatch(c.text)}}

\* The ticket ids the tool results sent for invocation c quote.
resultIds(c) ==
  {r.fr.result[2] : r \in {x \in BagToSet(sent) : x.k = c.k /\ x.fr.id = c.id}}

\* C30: one ticket id per registerSupportTicket invocation.  An invocation
\* that was dispatched has one ticket-created event, and the id in a fallback
\* subject and the id in the tool result, of either variant, are the id of
\* that event, whatever other invocations are in flight.
C30_OneTicketId ==
  \A i \in 1..Len(calls) :
    (calls[i].name = "registerSupportTicket" /\ calls[i].pc \in {"gen", "done"})
      => /\ Cardinality(createdIds(calls[i])) = 1
         /\ count(calls[i].log, "ticket-created") = 1
         /\ quotedIds(calls[i]) \subseteq createdIds(calls[i])
         /\ resultIds(calls[i]) \subseteq createdIds(calls[i])
         /\ calls[i].pc = "done" => resultIds(calls[i]) # {}

\* C30 witness: two invocations with different ticket ids were in flight at
\* once; the later one has ended with a fallback subject and its tool result
\* while the earlier one is still pending.
C30_Witness ==
  /\ Len(calls) = 2
  /\ calls[1].name = "registerSupportTicket" /\ calls[1].pc = "gen"
  /\ calls[2].name = "registerSupportTicket" /\ calls[2].pc = "done"
  /\ createdIds(calls[1]) # createdIds(calls[2])
  /\ quotedIds(calls[2]) # {}
  /\ resultIds(calls[2]) # {} /\ resultIds(calls[1]) = {}

\* The newest attempt handleConnect has started, 0 before the first.
newestAttempt ==
  IF \A k \in ConnIds : connectPc[k] = "idle" THEN 0
  ELSE CHOOSE k \in ConnIds :
         connectPc[k] # "idle" /\ \A j \in ConnIds : j > k => connectPc[j] = "idle"

\* The manager of attempt k holds a live session: its stream and its channel.
liveSession(k) == this[mgrOf(k)].stream = k /\ chan[k] \in {"opening", "open"}

\* C31: the connection state follows the newest attempt.  The scheduled
\* reset changes the state only when it is still ERROR; the state is not
\* DISCONNECTED while the newest attempt awaits connect() or holds a live
\* session; and the state is CONNECTED only while the manager App refers to
\* holds a live session.
C31_StateFollowsNewestAttempt ==
  /\ [][(resetTimers' < resetTimers /\ connectionState' # connectionState)
          => connectionState = "ERROR"]_vars
  /\ [](\A k \in ConnIds :
          (k = newestAttempt /\ (connectPc[k] = "mic" \/ liveSession(k)))
            => connectionState # "DISCONNECTED")
  /\ [](connectionState = "CONNECTED"
          => liveManagerRef # 0 /\ liveSession(liveManagerRef))

====
